---- MODULE Spec2Model ----
(***************************************************************************)
(* Model of lib/index.js of node-service-agent: an http.Agent that         *)
(* resolves "<service><host>" SRV records, caches the answer per record    *)
(* name and picks one address per request with groupSrvRecords.            *)
(*                                                                         *)
(* Two specifications:                                                     *)
(*   Spec     the agent: addRequest calls, DNS callbacks and the clock     *)
(*   SpecSel  one run of internals.groupSrvRecords over a drawn input      *)
(***************************************************************************)
EXTENDS Integers, Sequences, FiniteSets, TLC

\* ------------------------------------------------------------------ bounds
MaxReq == 3
MaxTime == 2
MaxLen == 3
MaxMiss == 2

\* --------------------------------------------------------------- universes
\* The options callers pass to addRequest: options.host and options.port.
Callers == {[host |-> "h1", port |-> 8080], [host |-> "h2", port |-> 9090]}

\* options.intervalSeconds values the constructor accepts (>= 0).
IntervalSecondsChoices == {0, 1, 2}

\* options.intervalSeconds * 1000: the milliseconds of one second, which is
\* also the step of the clock.
MsPerSecond == 1000

\* SRV records a DNS answer is made of: name, port, priority, weight.
SrvA == [name |-> "a", port |-> 0, priority |-> 1, weight |-> 1]
SrvB == [name |-> "b", port |-> 4433, priority |-> 1, weight |-> 3]
SrvC == [name |-> "c", port |-> 8443, priority |-> 2, weight |-> 6]

\* The inputs groupSrvRecords is run over under SpecSel: every non-empty list of
\* at most MaxLen records over two priorities and the weights 0, 1, 3 and 6.
SelPriorities == {1, 2}
SelWeights == {0, 1, 3, 6}
SelRecords ==
    {[name |-> "s", port |-> 0, priority |-> p, weight |-> w] :
        p \in SelPriorities, w \in SelWeights}
SelInputs == UNION {[1 .. n -> SelRecords] : n \in 1 .. MaxLen}

\* What the callback of Dns.resolveSrv may be called with: (err, addrs).
DnsAnswers ==
    { [err |-> TRUE, addrs |-> <<>>],
      [err |-> FALSE, addrs |-> <<>>],
      [err |-> FALSE, addrs |-> <<SrvA, SrvB>>],
      [err |-> FALSE, addrs |-> <<SrvC, SrvB>>] }

\* ------------------------------------------------------------------- state
VARIABLES
    intervalMilliSecs,  \* this.intervalMilliSecs
    mappedRecord,       \* this.mappedRecord: record name -> addrs
    resolvedTimeMap,    \* this.resolvedTimeMap: record name -> Date.now() of the store
    resolvingMap,       \* this.resolvingMap: record name -> 'fetching'
    now,                \* Date.now()
    lookups,            \* Dns.resolveSrv calls whose callback has not fired
    nextReq,            \* number of addRequest calls made so far
    dispatched,         \* per request: the number of super.addRequest calls made for it
    lastOk,             \* history: record name -> the last successful answer and its lookup kind
    ev,                 \* history: the step just taken, with the maps before it
    g_pc, g_addrs, g_keys, g_group, g_totalWeight, g_result, g_draws, g_picked, g_last

agentVars == <<intervalMilliSecs, mappedRecord, resolvedTimeMap, resolvingMap, now,
               lookups, nextReq, dispatched, lastOk, ev>>
selVars == <<g_pc, g_addrs, g_keys, g_group, g_totalWeight, g_result, g_draws,
             g_picked, g_last>>
vars == <<agentVars, selVars>>

\* ----------------------------------------------------------------- helpers
EmptyMap == [k \in {} |-> <<>>]

MapPut(map, key, val) == [k \in DOMAIN map \cup {key} |-> IF k = key THEN val ELSE map[k]]

MapDelete(map, key) == [k \in DOMAIN map \ {key} |-> map[k]]

Range(s) == {s[i] : i \in DOMAIN s}

RECURSIVE SumWeights(_)
SumWeights(group) ==
    IF group = <<>> THEN 0 ELSE Head(group).weight + SumWeights(Tail(group))

RemoveAt(s, i) == SubSeq(s, 1, i - 1) \o SubSeq(s, i + 1, Len(s))

\* ------------------------------------------- internals.groupSrvRecords
\* addrs.forEach: the addresses of one priority, in input order, pushed onto a
\* fresh array groups[priority].
GroupOf(addrs, priority) == SelectSeq(addrs, LAMBDA a : a.priority = priority)

\* compareNumbers with its two results swapped.
compareNumbers_Reversed(a, b) == IF a < b THEN 1 ELSE IF a > b THEN -1 ELSE 0

\* internals.compareNumbers on two priority keys.
compareNumbers(a, b) == IF a < b THEN -1 ELSE IF a > b THEN 1 ELSE 0

\* Object.keys(groups).sort(internals.compareNumbers)
RECURSIVE SortKeys(_)
SortKeys(S) ==
    IF S = {} THEN <<>>
    ELSE LET m == CHOOSE x \in S : \A y \in S : compareNumbers(x, y) <= 0
         IN <<m>> \o SortKeys(S \ {m})

PriorityKeys(addrs) == SortKeys({addrs[i].priority : i \in DOMAIN addrs})

\* Math.floor(Math.random() * totalWeight) with Math.random() in [0, 1).
Draws(totalWeight) == IF totalWeight > 0 THEN 0 .. (totalWeight - 1) ELSE {0}

\* The walk with w >= 0 where the code has w > 0.
RECURSIVE WalkFrom_NonNegative(_, _, _)
WalkFrom_NonNegative(group, pos, w) ==
    IF pos <= Len(group) /\ w >= 0
    THEN WalkFrom_NonNegative(group, pos + 1, w - group[pos].weight)
    ELSE pos

\* while (++index < group.length && w > 0) { w -= group[index].weight; }
\* Positions are 1-based here: the result is the code's final index plus one,
\* and Len(group) + 1 stands for index === group.length (nothing selected).
RECURSIVE WalkFrom(_, _, _)
WalkFrom(group, pos, w) ==
    IF pos <= Len(group) /\ w > 0
    THEN WalkFrom(group, pos + 1, w - group[pos].weight)
    ELSE pos

Walk(group, w) == WalkFrom(group, 1, w)

\* The addresses groupSrvRecords(addrs) can return first (the .shift() of
\* sentRequest): the only member of the lowest-priority group, or the member
\* the first selecting draw of that group picks.
GroupSrvHeads(addrs) ==
    IF addrs = <<>> THEN {}
    ELSE LET group == GroupOf(addrs, Head(PriorityKeys(addrs)))
         IN IF Len(group) = 1 THEN {group[1]}
            ELSE {group[Walk(group, w)] :
                    w \in {d \in Draws(SumWeights(group)) : Walk(group, d) <= Len(group)}}

\* -------------------------------------------------- ServiceAgent, the agent
\* this.service: the default, already ending in '.'.
service == "_http._tcp."

\* const srvRecord = this.service + options.host;
SrvRecord(host) == service \o host

\* this.intervalMilliSecs = options.intervalSeconds * 1000;
IntervalOf(intervalSeconds) == intervalSeconds * MsPerSecond

\* The cache test without its "this option is on" conjunct.
IsCached_AnyInterval(key) ==
    /\ key \in DOMAIN mappedRecord
    /\ key \in DOMAIN resolvedTimeMap

\* this.intervalMilliSecs > 0 && srvRecord in this.mappedRecord &&
\* srvRecord in this.resolvedTimeMap
IsCached(key) ==
    /\ intervalMilliSecs > 0
    /\ key \in DOMAIN mappedRecord
    /\ key \in DOMAIN resolvedTimeMap

\* The expiry test with > where the code has >=.
IsExpired_Strict(key) == now - resolvedTimeMap[key] > intervalMilliSecs

\* The expiry test against the interval in seconds, the age being milliseconds.
IsExpired_Seconds(key) ==
    now - resolvedTimeMap[key] >= intervalMilliSecs \div MsPerSecond

\* Date.now() - this.resolvedTimeMap[srvRecord] >= this.intervalMilliSecs
IsExpired(key) == now - resolvedTimeMap[key] >= intervalMilliSecs

\* The refresh branch without its test of the 'fetching' marker.
NotFetching_NoGate(key) == TRUE

\* this.resolvingMap[srvRecord] !== 'fetching'
NotFetching(key) == ~(key \in DOMAIN resolvingMap /\ resolvingMap[key] = "fetching")

\* this.resolvingMap[srvRecord] = 'fetching';
MarkFetching(map, key) == MapPut(map, key, "fetching")

\* The refresh callback without its delete of the marker.
ClearFetching_Keep(map, key) == map

\* delete this.resolvingMap[srvRecord];
ClearFetching(map, key) == MapDelete(map, key)

\* The failure test without its addrs.length === 0 disjunct.
LookupFailed_ErrOnly(res) == res.err

\* The failure test with && where the code has ||.
LookupFailed_And(res) == res.err /\ Len(res.addrs) = 0

\* if (err || addrs.length === 0)
LookupFailed(res) == res.err \/ Len(res.addrs) = 0

\* A store that merges the answer into the record already held.
StoreRecord_Merge(map, key, addrs) ==
    MapPut(map, key, (IF key \in DOMAIN map THEN map[key] ELSE <<>>) \o addrs)

\* this.mappedRecord[srvRecord] = addrs;
StoreRecord(map, key, addrs) == MapPut(map, key, addrs)

\* A callback that stores the answer and leaves the resolved time unset.
StoreTime_Skip(map, key, t) == map

\* this.resolvedTimeMap[srvRecord] = Date.now();
StoreTime(map, key, t) == MapPut(map, key, t)

\* The port of the chosen address without the || options.port default.
EffectivePort_NoDefault(addr, port) == addr.port

\* addr.port || options.port
EffectivePort(addr, port) == IF addr.port = 0 THEN port ELSE addr.port

NoAddr == [name |-> "", port |-> 0, priority |-> 0, weight |-> 0]

EntryOf(map, key) == IF key \in DOMAIN map THEN map[key] ELSE <<>>

\* sentRequest(): the super.addRequest(req, addr.name, addr.port || options.port, ..)
\* calls it can make over the record stored in `map`, one per address
\* groupSrvRecords can put first. Over an empty list .shift() is undefined and
\* addr.name throws a TypeError: no call is made.
SentRequest(map, key, port, via, pending) ==
    IF map[key] = <<>>
    THEN { [via |-> "throw", name |-> "", port |-> 0, addr |-> NoAddr,
            hadEntry |-> TRUE, entry |-> <<>>, pending |-> pending] }
    ELSE { [via |-> via, name |-> a.name, port |-> EffectivePort(a, port), addr |-> a,
            hadEntry |-> TRUE, entry |-> map[key], pending |-> pending] :
             a \in GroupSrvHeads(map[key]) }

\* The number of super.addRequest calls one sentRequest() outcome stands for.
Calls(d) == IF d.via = "throw" THEN 0 ELSE 1

\* A fallback that passes the host on and loses the port.
FallbackEndpoint_NoPort(host, port) == [name |-> host, port |-> 0]

\* use passed in values: super.addRequest(req, options, ...extra)
FallbackEndpoint(host, port) == [name |-> host, port |-> port]

Fallback(map, key, host, port, pending) ==
    [via |-> "fallback", name |-> FallbackEndpoint(host, port).name,
     port |-> FallbackEndpoint(host, port).port, addr |-> NoAddr,
     hadEntry |-> key \in DOMAIN map, entry |-> EntryOf(map, key), pending |-> pending]

\* A cached branch that hands the passed in values on once the record is expired.
CachedDispatch_FallbackWhenExpired(key, host, port, pending) ==
    IF now - resolvedTimeMap[key] >= intervalMilliSecs
    THEN { [via |-> "fallback", name |-> host, port |-> port, addr |-> NoAddr,
            hadEntry |-> TRUE, entry |-> mappedRecord[key], pending |-> pending] }
    ELSE { [via |-> "cache", name |-> a.name,
            port |-> IF a.port = 0 THEN port ELSE a.port, addr |-> a,
            hadEntry |-> TRUE, entry |-> mappedRecord[key], pending |-> pending] :
             a \in GroupSrvHeads(mappedRecord[key]) }

\* A selection whose .shift() takes the head off the stored array itself.
InputAfterSelect_Shifted(addrs) == Tail(addrs)

\* What the array given to groupSrvRecords holds after sentRequest() has taken
\* the head of its result: every address was pushed onto a fresh array
\* groups[priority], the splices act on those, and .shift() on the fresh
\* result, so the array given is as it was.
InputAfterSelect(addrs) == addrs

\* The cached branch without its return: the call goes on to line 204.
CachedBranchReturns_FallsThrough == FALSE

\* return sentRequest(); ends the call in the cached branch: the
\* Dns.resolveSrv below it is not reached.
CachedBranchReturns == TRUE

\* return sentRequest(); at the end of the branch that serves from the cache.
CachedDispatch(key, host, port, pending) ==
    SentRequest(mappedRecord, key, port, "cache", pending)

RefreshesOf(set, key) == {l \in set : l.key = key /\ l.kind = "refresh"}

NoAnswer == [err |-> FALSE, addrs |-> <<>>]

NoDispatch ==
    [via |-> "none", name |-> "", port |-> 0, addr |-> NoAddr, hadEntry |-> FALSE,
     entry |-> <<>>, pending |-> FALSE]

\* The record of one step: the operation, its record name and request, the DNS
\* answer a callback got, whether it started a refresh over an expired record,
\* the super.addRequest call it made, and the two maps as they were before it.
Event(op, key, req, options, res, started, stale, sent) ==
    [op |-> op, key |-> key, req |-> req, options |-> options, res |-> res,
     started |-> started, stale |-> stale, sent |-> sent,
     prevRecord |-> mappedRecord, prevTime |-> resolvedTimeMap,
     prevResolving |-> resolvingMap]

NoOptions == [host |-> "", port |-> 0]

SelIdle ==
    /\ g_pc = "idle"
    /\ g_addrs = <<>>
    /\ g_keys = <<>>
    /\ g_group = <<>>
    /\ g_totalWeight = 0
    /\ g_result = <<>>
    /\ g_draws = 0
    /\ g_picked = 0
    /\ g_last = [w |-> 0, pos |-> 0, len |-> 0, group |-> <<>>]

\* The class fields and the constructor.
AgentInit(intervalSeconds) ==
    /\ intervalMilliSecs = IntervalOf(intervalSeconds)
    /\ mappedRecord = EmptyMap
    /\ resolvedTimeMap = EmptyMap
    /\ resolvingMap = EmptyMap
    /\ now = 0
    /\ lookups = {}
    /\ nextReq = 0
    /\ dispatched = [r \in 1 .. MaxReq |-> 0]
    /\ lastOk = EmptyMap
    /\ ev = [op |-> "init", key |-> "", req |-> 0, options |-> NoOptions,
             res |-> NoAnswer, started |-> FALSE,
             stale |-> FALSE, sent |-> NoDispatch, prevRecord |-> EmptyMap,
             prevTime |-> EmptyMap, prevResolving |-> EmptyMap]

Init == (\E s \in IntervalSecondsChoices : AgentInit(s)) /\ SelIdle

\* addRequest, the branch that serves from the cache: start a refresh when the
\* record is expired and none is being fetched, then sentRequest().
AddRequestCached(host, port) ==
    LET key == SrvRecord(host)
        r == nextReq + 1
    IN /\ nextReq < MaxReq
       /\ IsCached(key)
       /\ LET start == IsExpired(key) /\ NotFetching(key)
              newLookups ==
                  IF start
                  THEN lookups \cup {[req |-> r, kind |-> "refresh", key |-> key,
                                      host |-> "", port |-> 0]}
                  ELSE lookups
          IN /\ resolvingMap' = IF start THEN MarkFetching(resolvingMap, key)
                                ELSE resolvingMap
             /\ lookups' = IF CachedBranchReturns THEN newLookups
                            ELSE newLookups \cup {[req |-> r, kind |-> "first",
                                                   key |-> key, host |-> host,
                                                   port |-> port]}
             /\ mappedRecord' =
                    [mappedRecord EXCEPT ![key] = InputAfterSelect(@)]
             /\ \E d \in CachedDispatch(key, host, port,
                                        RefreshesOf(newLookups, key) # {}) :
                    /\ dispatched' = [dispatched EXCEPT ![r] = @ + Calls(d)]
                    /\ ev' = Event("addRequest.cached", key, r,
                                   [host |-> host, port |-> port], NoAnswer, start,
                                   IsExpired(key), d)
       /\ nextReq' = r
       /\ UNCHANGED <<intervalMilliSecs, resolvedTimeMap, now, lastOk>>
       /\ UNCHANGED selVars

\* addRequest, the branch that resolves first: Dns.resolveSrv(srvRecord, cb).
AddRequestLookup(host, port) ==
    LET key == SrvRecord(host)
        r == nextReq + 1
    IN /\ nextReq < MaxReq
       /\ ~IsCached(key)
       /\ lookups' = lookups \cup {[req |-> r, kind |-> "first", key |-> key,
                                    host |-> host, port |-> port]}
       /\ ev' = Event("addRequest.lookup", key, r, [host |-> host, port |-> port],
                      NoAnswer, FALSE, FALSE, NoDispatch)
       /\ nextReq' = r
       /\ UNCHANGED <<intervalMilliSecs, mappedRecord, resolvedTimeMap, resolvingMap,
                      now, dispatched, lastOk>>
       /\ UNCHANGED selVars

\* A refresh callback whose delete of the marker sits in the else branch, after
\* the two stores.
RefreshCallback_ClearOnSuccess(l, res) ==
    /\ l \in lookups
    /\ l.kind = "refresh"
    /\ IF res.err \/ Len(res.addrs) = 0
       THEN UNCHANGED <<mappedRecord, resolvedTimeMap, lastOk, resolvingMap>>
       ELSE /\ mappedRecord' = MapPut(mappedRecord, l.key, res.addrs)
            /\ resolvedTimeMap' = MapPut(resolvedTimeMap, l.key, now)
            /\ lastOk' = MapPut(lastOk, l.key, [addrs |-> res.addrs, by |-> "refresh"])
            /\ resolvingMap' = MapDelete(resolvingMap, l.key)
    /\ lookups' = lookups \ {l}
    /\ ev' = Event("refresh.done", l.key, l.req, NoOptions, res, FALSE, FALSE, NoDispatch)
    /\ UNCHANGED <<intervalMilliSecs, now, nextReq, dispatched>>
    /\ UNCHANGED selVars

\* The callback of the refresh lookup.
RefreshCallback(l, res) ==
    /\ l \in lookups
    /\ l.kind = "refresh"
    /\ IF LookupFailed(res)
       THEN UNCHANGED <<mappedRecord, resolvedTimeMap, lastOk>>
       ELSE /\ mappedRecord' = StoreRecord(mappedRecord, l.key, res.addrs)
            /\ resolvedTimeMap' = StoreTime(resolvedTimeMap, l.key, now)
            /\ lastOk' = MapPut(lastOk, l.key, [addrs |-> res.addrs, by |-> "refresh"])
    /\ resolvingMap' = ClearFetching(resolvingMap, l.key)
    /\ lookups' = lookups \ {l}
    /\ ev' = Event("refresh.done", l.key, l.req, NoOptions, res, FALSE, FALSE, NoDispatch)
    /\ UNCHANGED <<intervalMilliSecs, now, nextReq, dispatched>>
    /\ UNCHANGED selVars

\* The callback of the first lookup: fall back to the passed in values, or
\* store the answer and sentRequest().
FirstCallback(l, res) ==
    /\ l \in lookups
    /\ l.kind = "first"
    /\ lookups' = lookups \ {l}
    /\ IF LookupFailed(res)
       THEN /\ dispatched' = [dispatched EXCEPT ![l.req] = @ + 1]
            /\ ev' = Event("first.done", l.key, l.req,
                           [host |-> l.host, port |-> l.port], res, FALSE, FALSE,
                           Fallback(mappedRecord, l.key, l.host, l.port,
                                    RefreshesOf(lookups, l.key) # {}))
            /\ UNCHANGED <<mappedRecord, resolvedTimeMap, lastOk>>
       ELSE /\ mappedRecord' =
                   [StoreRecord(mappedRecord, l.key, res.addrs)
                       EXCEPT ![l.key] = InputAfterSelect(@)]
            /\ resolvedTimeMap' = StoreTime(resolvedTimeMap, l.key, now)
            /\ lastOk' = MapPut(lastOk, l.key, [addrs |-> res.addrs, by |-> "first"])
            /\ \E d \in SentRequest(StoreRecord(mappedRecord, l.key, res.addrs),
                                    l.key, l.port, "lookup",
                                    RefreshesOf(lookups, l.key) # {}) :
                   /\ dispatched' = [dispatched EXCEPT ![l.req] = @ + Calls(d)]
                   /\ ev' = Event("first.done", l.key, l.req,
                                  [host |-> l.host, port |-> l.port], res, FALSE,
                                  FALSE, d)
    /\ UNCHANGED <<intervalMilliSecs, resolvingMap, now, nextReq>>
    /\ UNCHANGED selVars

\* Time passes between two events.
Tick ==
    /\ now < MaxTime * MsPerSecond
    /\ now' = now + MsPerSecond
    /\ ev' = Event("tick", "", 0, NoOptions, NoAnswer, FALSE, FALSE, NoDispatch)
    /\ UNCHANGED <<intervalMilliSecs, mappedRecord, resolvedTimeMap, resolvingMap,
                   lookups, nextReq, dispatched, lastOk>>
    /\ UNCHANGED selVars

Next ==
    \/ \E options \in Callers : AddRequestCached(options.host, options.port)
    \/ \E options \in Callers : AddRequestLookup(options.host, options.port)
    \/ \E l \in lookups, res \in DnsAnswers : RefreshCallback(l, res)
    \/ \E l \in lookups, res \in DnsAnswers : FirstCallback(l, res)
    \/ Tick

Spec == Init /\ [][Next]_vars

\* The callback of the refresh lookup of one record name fires.
RefreshFires(key) ==
    \E l \in lookups, res \in DnsAnswers : l.key = key /\ RefreshCallback(l, res)

\* The agent when Dns.resolveSrv calls the callback of every refresh lookup:
\* an outstanding refresh does not stay outstanding for ever.
SpecLive ==
    Spec /\ \A options \in Callers : WF_vars(RefreshFires(SrvRecord(options.host)))

\* ------------------------------- one run of internals.groupSrvRecords(addrs)
\* g_pc: "start" before the call, "group" at the forEach over the sorted
\* priorities, "loop" at the while of one group, "done" after the return.
SelInit ==
    /\ g_pc = "start"
    /\ g_addrs \in SelInputs
    /\ g_keys = <<>>
    /\ g_group = <<>>
    /\ g_totalWeight = 0
    /\ g_result = <<>>
    /\ g_draws = 0
    /\ g_picked = 0
    /\ g_last = [w |-> 0, pos |-> 0, len |-> 0, group |-> <<>>]

InitSel == AgentInit(0) /\ SelInit

\* Group the addresses by priority, sort the priorities, result = [].
GStart ==
    /\ g_pc = "start"
    /\ g_keys' = PriorityKeys(g_addrs)
    /\ g_result' = <<>>
    /\ g_pc' = "group"
    /\ UNCHANGED <<g_addrs, g_group, g_totalWeight, g_draws, g_picked, g_last>>
    /\ UNCHANGED agentVars

\* Enter the next priority: const group = groups[priority]; sum its weights.
GEnterGroup ==
    /\ g_pc = "group"
    /\ g_keys # <<>>
    /\ g_group' = GroupOf(g_addrs, Head(g_keys))
    /\ g_totalWeight' = SumWeights(GroupOf(g_addrs, Head(g_keys)))
    /\ g_keys' = Tail(g_keys)
    /\ g_pc' = "loop"
    /\ UNCHANGED <<g_addrs, g_result, g_draws, g_picked, g_last>>
    /\ UNCHANGED agentVars

\* One pass of while (group.length > 1): draw w, walk, and splice the selected
\* address out of the group when the walk stopped inside it.
GDraw(w) ==
    /\ g_pc = "loop"
    /\ Len(g_group) > 1
    /\ LET pos == Walk(g_group, w)
       IN /\ g_last' = [w |-> w, pos |-> pos, len |-> Len(g_group), group |-> g_group]
          /\ IF pos <= Len(g_group)
             THEN /\ g_group' = RemoveAt(g_group, pos)
                  /\ g_result' = Append(g_result, g_group[pos])
                  /\ g_totalWeight' = g_totalWeight - g_group[pos].weight
                  /\ g_picked' = g_picked + 1
             ELSE /\ g_draws - g_picked < MaxMiss
                  /\ UNCHANGED <<g_group, g_result, g_totalWeight, g_picked>>
    /\ g_draws' = g_draws + 1
    /\ UNCHANGED <<g_pc, g_addrs, g_keys>>
    /\ UNCHANGED agentVars

\* The while has ended: result.push(group[0]), and on to the next priority.
GLast ==
    /\ g_pc = "loop"
    /\ Len(g_group) <= 1
    /\ g_result' = Append(g_result, g_group[1])
    /\ g_pc' = "group"
    /\ UNCHANGED <<g_addrs, g_keys, g_group, g_totalWeight, g_draws, g_picked, g_last>>
    /\ UNCHANGED agentVars

\* return result;
GReturn ==
    /\ g_pc = "group"
    /\ g_keys = <<>>
    /\ g_pc' = "done"
    /\ UNCHANGED <<g_addrs, g_keys, g_group, g_totalWeight, g_result, g_draws,
                   g_picked, g_last>>
    /\ UNCHANGED agentVars

NextSel ==
    \/ GStart
    \/ GEnterGroup
    \/ \E w \in Draws(g_totalWeight) : GDraw(w)
    \/ GLast
    \/ GReturn

SpecSel == InitSel /\ [][NextSel]_vars

\* ------------------------------------------------------------------ claims
AllKeys == {SrvRecord(c.host) : c \in Callers}

AnswerIsFailure(res) == res.err \/ res.addrs = <<>>

Fetching(key) == key \in DOMAIN resolvingMap /\ resolvingMap[key] = "fetching"

Outstanding(key) == {l \in lookups : l.key = key}

\* C1, as stated: for every key at most one lookup, first or refresh, is
\* outstanding at any time.
C1_OneLookupPerKey == \A key \in AllKeys : Cardinality(Outstanding(key)) <= 1

\* C1, amended: for every key at most one refresh lookup is outstanding at any
\* time, and every other outstanding lookup of the key is the first lookup of
\* a request of its own that has not been handed to the transport yet.
C1_OneRefreshPerKey ==
    \A key \in AllKeys :
        /\ Cardinality(RefreshesOf(lookups, key)) <= 1
        /\ \A l \in Outstanding(key) \ RefreshesOf(lookups, key) :
              /\ l.kind = "first"
              /\ dispatched[l.req] = 0
        /\ \A l1, l2 \in Outstanding(key) : l1.req = l2.req => l1 = l2

\* C1 witness: a refresh and a first lookup of the same key are outstanding
\* together.
C1_Witness ==
    \E l1, l2 \in lookups : l1.key = l2.key /\ l1.kind = "refresh" /\ l2.kind = "first"

\* C2: the 'fetching' marker of a key is set if and only if exactly one refresh
\* lookup of that key is outstanding (and none is outstanding when it is not
\* set); a call over an expired record that starts no refresh skips it because
\* one is outstanding, and a call that starts one holds the only one.
C2_MarkerIffOneRefresh ==
    /\ \A key \in AllKeys :
          /\ Fetching(key) <=> Cardinality(RefreshesOf(lookups, key)) = 1
          /\ ~Fetching(key) => RefreshesOf(lookups, key) = {}
    /\ ev.op = "addRequest.cached" =>
          /\ ev.started => /\ ev.stale
                           /\ \A l \in RefreshesOf(lookups, ev.key) : l.req = ev.req
          /\ ev.stale /\ ~ev.started =>
                \E l \in RefreshesOf(lookups, ev.key) : l.req < ev.req

\* C2 witness: a call found the record expired and skipped the lookup, the
\* refresh of an earlier call being outstanding.
C2_Witness ==
    /\ ev.op = "addRequest.cached"
    /\ ev.stale
    /\ ~ev.started
    /\ Fetching(ev.key)

\* C3, as stated: the passed in values are handed to the transport only when
\* the cache holds no entry for the key at that moment, and whenever an entry
\* exists at that moment the endpoint handed on is a member of it.
C3_FallbackOnlyWithoutEntry ==
    ev.sent.via \in {"cache", "lookup", "fallback"} =>
        /\ ev.sent.via = "fallback" => ~ev.sent.hadEntry
        /\ ev.sent.hadEntry => ev.sent.addr \in Range(ev.sent.entry)

\* C3, amended: the passed in values are handed to the transport only by the
\* callback of the call's own first lookup, when that lookup failed or
\* returned no address (whether or not the key has an entry by then); every
\* other call to the transport carries a member of the key's entry as it is at
\* that moment, and a call served from the cache never carries the passed in
\* values, however old the entry is.
C3_FallbackOnlyOnOwnFailedLookup ==
    /\ ev.sent.via = "fallback" =>
          /\ ev.op = "first.done"
          /\ AnswerIsFailure(ev.res)
    /\ ev.sent.via \in {"cache", "lookup"} =>
          /\ ev.key \in DOMAIN mappedRecord
          /\ mappedRecord[ev.key] # <<>>
          /\ ev.sent.entry = mappedRecord[ev.key]
          /\ ev.sent.addr \in Range(mappedRecord[ev.key])
          /\ ev.sent.name = ev.sent.addr.name
    /\ ev.op = "addRequest.cached" => ev.sent.via = "cache"
    /\ ev.op = "first.done" /\ ~AnswerIsFailure(ev.res) => ev.sent.via = "lookup"

\* C3 witness: a failed first lookup handed the passed in values on while the
\* key had an entry.
C3_Witness ==
    /\ ev.op = "first.done"
    /\ ev.sent.via = "fallback"
    /\ ev.key \in DOMAIN mappedRecord
    /\ mappedRecord[ev.key] # <<>>

C5_StaleWhileRevalidate ==
    /\ ev.op = "addRequest.cached" =>
          /\ ev.sent.via = "cache"
          /\ dispatched[ev.req] = 1
          /\ mappedRecord = ev.prevRecord /\ resolvedTimeMap = ev.prevTime
          /\ ev.sent.addr \in Range(ev.prevRecord[ev.key])
          /\ ev.sent.addr \in Range(lastOk[ev.key].addrs)
          /\ now - ev.prevTime[ev.key] >= intervalMilliSecs =>
                /\ RefreshesOf(lookups, ev.key) # {}
                /\ ev.sent.pending
    /\ ev.op = "refresh.done" /\ ~AnswerIsFailure(ev.res) =>
          /\ mappedRecord[ev.key] = ev.res.addrs
          /\ resolvedTimeMap[ev.key] = now
          /\ lastOk[ev.key] = [addrs |-> ev.res.addrs, by |-> "refresh"]

\* C5 witness: a call served from an expired entry that an earlier refresh had
\* stored, and starting the next refresh.
C5_Witness ==
    /\ ev.op = "addRequest.cached"
    /\ ev.stale
    /\ ev.started
    /\ ev.sent.via = "cache"
    /\ lastOk[ev.key].by = "refresh"
    /\ ev.sent.addr \in Range(lastOk[ev.key].addrs)

\* C6: when the first lookup of a call fails or returns no address, the
\* transport gets exactly the call's own host and port, once, and both maps
\* are as they were: a key without an entry still has no entry and no
\* resolved time.
C6_FailedFirstLookupFallsBack ==
    ev.op = "first.done" /\ AnswerIsFailure(ev.res) =>
        /\ ev.sent.via = "fallback"
        /\ ev.sent.name = ev.options.host
        /\ ev.sent.port = ev.options.port
        /\ ev.sent.addr = NoAddr
        /\ dispatched[ev.req] = 1
        /\ mappedRecord = ev.prevRecord
        /\ resolvedTimeMap = ev.prevTime
        /\ ev.key \notin DOMAIN ev.prevRecord =>
              /\ ev.key \notin DOMAIN mappedRecord
              /\ ev.key \notin DOMAIN resolvedTimeMap

\* C6 witness: a first lookup of a key without an entry failed and the call
\* was handed on with the passed in values.
C6_Witness ==
    /\ ev.op = "first.done"
    /\ AnswerIsFailure(ev.res)
    /\ ev.key \notin DOMAIN mappedRecord
    /\ ev.key \notin DOMAIN resolvedTimeMap
    /\ ev.sent.via = "fallback"
    /\ ev.options \in Callers

C8_EntryIsLastSuccessfulAnswer ==
    /\ DOMAIN mappedRecord = DOMAIN lastOk
    /\ \A key \in DOMAIN mappedRecord : mappedRecord[key] = lastOk[key].addrs

\* C8 witness: a successful lookup replaced an entry by an answer that lacks
\* one of its addresses.
C8_Witness ==
    /\ ev.op \in {"refresh.done", "first.done"}
    /\ ~AnswerIsFailure(ev.res)
    /\ ev.key \in DOMAIN ev.prevRecord
    /\ \E a \in Range(ev.prevRecord[ev.key]) :
          /\ a \notin Range(ev.res.addrs)
          /\ a \notin Range(mappedRecord[ev.key])

\* ---------------------------------------------- claims on groupSrvRecords
CountIn(s, e) == Cardinality({i \in DOMAIN s : s[i] = e})

IsPermutation(s, t) ==
    /\ Len(s) = Len(t)
    /\ \A e \in Range(s) \cup Range(t) : CountIn(s, e) = CountIn(t, e)

\* The draw values in [0, totalWeight) whose walk stops at position pos.
DrawsSelecting(group, pos) ==
    {w \in 0 .. (SumWeights(group) - 1) : Walk(group, w) = pos}

\* C9: whenever groupSrvRecords returns, whatever the draws were, its result is
\* a permutation of its input (the same addresses, each as often), and an
\* address of a lower priority value stands before every address of a higher
\* one.
C9_PermutationByPriority ==
    g_pc = "done" =>
        /\ IsPermutation(g_result, g_addrs)
        /\ \A i, j \in DOMAIN g_result :
              g_result[i].priority < g_result[j].priority => i < j

\* C9 witness: a run over at least three addresses, the input not in priority
\* order, returned after a draw that selected and a draw that did not.
C9_Witness ==
    /\ g_pc = "done"
    /\ Len(g_addrs) >= 3
    /\ g_addrs[1].priority > g_addrs[2].priority
    /\ g_picked >= 1
    /\ g_draws > g_picked
    /\ g_result # g_addrs

\* C10, as stated: at the first pick of a priority group (here: of members of
\* positive weight), the number of draw values in [0, totalWeight) that select
\* a member equals that member's weight.
C10_PickCountEqualsWeight ==
    /\ g_pc = "loop"
    /\ Len(g_group) > 1
    /\ g_group = GroupOf(g_addrs, g_group[1].priority)
    /\ \A pos \in DOMAIN g_group : g_group[pos].weight > 0
    => \A pos \in DOMAIN g_group :
          Cardinality(DrawsSelecting(g_group, pos)) = g_group[pos].weight

\* The groups of the input, in the order they are walked.
GroupsOf(addrs) == [k \in DOMAIN PriorityKeys(addrs) |-> GroupOf(addrs, PriorityKeys(addrs)[k])]

RECURSIVE Concat(_)
Concat(ss) == IF ss = <<>> THEN <<>> ELSE Head(ss) \o Concat(Tail(ss))

AllZero(group) == \A i \in DOMAIN group : group[i].weight = 0

\* A draw has been made, and g_last holds it with the group it was made over.
Drawn == g_last.len > 0

\* C11, as stated: no draw selects a member of weight 0 while a member of
\* positive weight is in the same group.
C11_ZeroWeightNeverDrawn ==
    Drawn /\ g_last.pos <= g_last.len =>
        ~ /\ g_last.group[g_last.pos].weight = 0
          /\ \E j \in DOMAIN g_last.group : g_last.group[j].weight > 0

\* C12: over a group whose members all have weight 0 every draw is 0 and
\* selects the first remaining member, so no draw leaves the group as it was;
\* and when all weights of the input are 0 the run returns every group in
\* input order, after one selecting draw per member but the last of each group.
C12_AllZeroGroupCompletes ==
    /\ g_pc = "loop" /\ Len(g_group) > 1 /\ AllZero(g_group) =>
          /\ g_totalWeight = 0
          /\ Draws(g_totalWeight) # {}
          /\ \A w \in Draws(g_totalWeight) : w = 0 /\ Walk(g_group, w) = 1
    /\ Drawn /\ AllZero(g_last.group) => g_last.w = 0 /\ g_last.pos = 1
    /\ AllZero(g_addrs) => g_draws = g_picked
    /\ g_pc = "done" /\ AllZero(g_addrs) =>
          /\ g_result = Concat(GroupsOf(g_addrs))
          /\ IsPermutation(g_result, g_addrs)
          /\ g_draws = Len(g_addrs) - Len(PriorityKeys(g_addrs))

\* C12 witness: a run over three addresses of weight 0, two of them in one
\* group, has returned.
C12_Witness ==
    /\ g_pc = "done"
    /\ AllZero(g_addrs)
    /\ Len(g_addrs) >= 3
    /\ g_picked >= 1
    /\ Len(g_result) = Len(g_addrs)

\* C15, as stated: every draw selects and removes one member (the walk stops
\* inside the group), so a run has made one draw per member but the last of
\* each group when it returns.
C15_EveryDrawSelects ==
    /\ Drawn => g_last.pos <= g_last.len
    /\ g_draws = g_picked
    /\ g_pc = "done" => g_draws = Len(g_addrs) - Len(PriorityKeys(g_addrs))

\* ------------------------------------------------- more claims on the agent
\* C13: when the address chosen from the entry has port 0 the transport gets
\* the caller's own port, and when it has another port the transport gets that
\* port, whatever the caller's port is; the host it gets is the address's name.
C13_PortSubstitution ==
    ev.sent.via \in {"cache", "lookup"} =>
        /\ ev.sent.addr \in Range(ev.sent.entry)
        /\ ev.sent.name = ev.sent.addr.name
        /\ ev.sent.addr.port = 0 => ev.sent.port = ev.options.port
        /\ ev.sent.addr.port # 0 => ev.sent.port = ev.sent.addr.port

\* C13 witness: an address of port 0 was chosen for a caller of port 9090,
\* which the transport got.
C13_Witness ==
    /\ ev.sent.via = "cache"
    /\ ev.sent.addr.port = 0
    /\ ev.options.port = 9090
    /\ ev.sent.port = 9090

\* C16: a refresh is started only by a call that finds interval > 0, an entry
\* of the key with now - resolvedAt >= interval and no 'fetching' marker, and
\* every refresh outstanding belongs to a key with an entry; a call that finds
\* interval > 0 and an entry with now - resolvedAt < interval starts no lookup,
\* refresh or first.
C16_RefreshOnlyWhenExpired ==
    /\ ev.started =>
          /\ ev.op = "addRequest.cached"
          /\ intervalMilliSecs > 0
          /\ ev.key \in DOMAIN ev.prevRecord
          /\ ev.key \in DOMAIN ev.prevTime
          /\ now - ev.prevTime[ev.key] >= intervalMilliSecs
          /\ ev.key \notin DOMAIN ev.prevResolving
          /\ \E l \in lookups : l.req = ev.req /\ l.kind = "refresh" /\ l.key = ev.key
    /\ \A l \in lookups : l.kind = "refresh" =>
          /\ intervalMilliSecs > 0
          /\ l.key \in DOMAIN mappedRecord
          /\ l.key \in DOMAIN resolvingMap
    /\ ev.op \in {"addRequest.cached", "addRequest.lookup"} =>
          /\ (\E l \in lookups : l.req = ev.req /\ l.kind = "refresh") => ev.started
          /\ /\ intervalMilliSecs > 0
             /\ ev.key \in DOMAIN ev.prevRecord
             /\ ev.key \in DOMAIN ev.prevTime
             /\ now - ev.prevTime[ev.key] < intervalMilliSecs
             => /\ ev.op = "addRequest.cached"
                /\ ~ev.started
                /\ \A l \in lookups : l.req # ev.req

\* C16 witness: with an interval of two seconds a call found an entry one
\* second old and started no lookup.
C16_Witness ==
    /\ ev.op = "addRequest.cached"
    /\ ev.key \in DOMAIN ev.prevTime
    /\ now - ev.prevTime[ev.key] > 0
    /\ now - ev.prevTime[ev.key] < intervalMilliSecs
    /\ \A l \in lookups : l.req # ev.req
    /\ ev.sent.via = "cache"

\* C17: every entry of the cache holds at least one address, an answer
\* without addresses is never stored, and sentRequest() is never run over an
\* empty list.
C17_EntriesNonEmpty ==
    /\ \A key \in DOMAIN mappedRecord : Len(mappedRecord[key]) >= 1
    /\ ev.sent.via # "throw"
    /\ ev.sent.via \in {"cache", "lookup"} => Len(ev.sent.entry) >= 1
    /\ ev.op \in {"first.done", "refresh.done"} /\ ev.res.addrs = <<>> =>
          mappedRecord = ev.prevRecord

\* C17 witness: a lookup answered without an error and without addresses
\* while the cache held an entry, which is still there.
C17_Witness ==
    /\ ev.op \in {"first.done", "refresh.done"}
    /\ ~ev.res.err
    /\ ev.res.addrs = <<>>
    /\ ev.key \in DOMAIN mappedRecord
    /\ Len(mappedRecord[ev.key]) >= 1

C19_EntriesNeverDeleted ==
    /\ DOMAIN ev.prevRecord \subseteq DOMAIN mappedRecord
    /\ DOMAIN ev.prevTime \subseteq DOMAIN resolvedTimeMap
    /\ DOMAIN mappedRecord = DOMAIN resolvedTimeMap

\* C19 witness: both keys have an entry and a resolved time after a lookup
\* that failed.
C19_Witness ==
    /\ DOMAIN mappedRecord = AllKeys
    /\ DOMAIN resolvedTimeMap = AllKeys
    /\ ev.op \in {"first.done", "refresh.done"}
    /\ ev.res.err

\* C20: every request passed to addRequest has been handed to the transport
\* once, unless its own first lookup is outstanding, and then not yet: a call
\* served from the cache is handed on within the call, a looked-up one when
\* its callback runs, none twice.
C20_DispatchedExactlyOnce ==
    /\ \A r \in DOMAIN dispatched :
          dispatched[r] =
              IF r <= nextReq /\ ~(\E l \in lookups : l.req = r /\ l.kind = "first")
              THEN 1 ELSE 0
    /\ \A l1, l2 \in lookups :
          l1.req = l2.req /\ l1.kind = "first" /\ l2.kind = "first" => l1 = l2
    /\ \A l \in lookups : l.req <= nextReq
    /\ ev.op = "addRequest.cached" => dispatched[ev.req] = 1 /\ ev.sent.via = "cache"
    /\ ev.op = "first.done" => dispatched[ev.req] = 1 /\ ev.sent.via \in {"lookup", "fallback"}

\* C20 witness: three requests, each handed on once, the last from the
\* callback of its failed lookup, and no lookup outstanding.
C20_Witness ==
    /\ nextReq >= 3
    /\ lookups = {}
    /\ \A r \in 1 .. nextReq : dispatched[r] = 1
    /\ ev.op = "first.done"
    /\ ev.sent.via = "fallback"

\* C14: when the callback of every refresh lookup fires, a 'fetching' marker
\* that is set is cleared later; the callback clears it whether the lookup
\* succeeded, failed or returned no address; and while the marker of a key is
\* set, a call for that key is handed to the transport within the call, with a
\* member of the entry.
C14_RefreshEnds ==
    /\ \A key \in AllKeys : Fetching(key) ~> ~Fetching(key)
    /\ [](ev.op = "refresh.done" => ~Fetching(ev.key))
    /\ [](ev.op = "addRequest.cached" /\ Fetching(ev.key) =>
              /\ ev.sent.via = "cache"
              /\ ev.sent.addr \in Range(ev.prevRecord[ev.key])
              /\ dispatched[ev.req] = 1)

\* C14 witness: the callback of a refresh ran with an error and the marker is
\* cleared, after a later call had been served while it was set.
C14_Witness ==
    /\ ev.op = "refresh.done"
    /\ ev.res.err
    /\ ev.key \notin DOMAIN resolvingMap
    /\ ev.key \in DOMAIN ev.prevResolving
    /\ \E r \in DOMAIN dispatched : r > ev.req /\ dispatched[r] = 1

====
